---- MODULE Spec2Model ----
(***************************************************************************)
(* GPG Indicator: the key status manager of src/src/extension.ts and the   *)
(* gpg helpers of the indicator module (sign, unlockByKey, isKeyUnlocked), *)
(* with the Assuan session they drive.                                     *)
(*                                                                         *)
(* An `await` is a step boundary: one action is the completion of one      *)
(* awaited call together with all the synchronous code that follows it up  *)
(* to the next await (a `finally` block included).  Program positions are  *)
(* named after the source line of the await they wait at.                  *)
(***************************************************************************)
EXTENDS Naturals, Sequences, FiniteSets

(***************************************************************************)
(* Bounds of the model.                                                    *)
(***************************************************************************)
\* status queries of background syncStatus calls in flight, per key
MaxInflight == 1
\* per-folder key lookups (updateFolder) in flight, per folder
MaxLookups == 1
\* events the editor delivers once the extension is activated: workspace
\* folder changes, active editor changes, invocations of the unlock command
MaxEvents == 2

(***************************************************************************)
(* Input domains.                                                          *)
(***************************************************************************)
Folders == {"/ws/a", "/ws/b"}

\* GpgKeyInfo, reduced to the two fields the manager and sign read
Keys ==
    { [fingerprint |-> "FPR_A", keygrip |-> "GRIP_A"],
      [fingerprint |-> "FPR_B", keygrip |-> "GRIP_B"] }

Passphrases == {"pass-one", "pass-two"}

SHA1_EMPTY_DIGEST == "da39a3ee5e6b4b0d3255bfef95601890afd80709"

(***************************************************************************)
(* Assuan requests and responses.                                          *)
(***************************************************************************)
\* a request; its payload is the sequence of the strings it is built from
RequestCommand(name, arg) == [kind |-> "Command", name |-> name, payload |-> arg]

RequestRawData(bytes) == [kind |-> "RawData", name |-> "D", payload |-> <<bytes>>]

Response(type, keyword) == [type |-> type, keyword |-> keyword]

\* the terminal responses a peer can deliver to one receiveResponse
Responses ==
    { Response("ok", ""),
      Response("error", ""),
      Response("rawData", ""),
      Response("information", "INQUIRE_MAXLEN"),
      Response("information", "PINENTRY_LAUNCHED"),
      Response("inquire", "PASSPHRASE"),
      Response("inquire", "NEW_PASSPHRASE") }

\* the ways a receiveResponse can fail instead
ReceiveFailures == {"EndOfStream", "IOError", "ParseError"}

NoResponse == Response("none", "")

(***************************************************************************)
(* State.                                                                  *)
(***************************************************************************)
VARIABLES
    \* KeyStatusManager
    activateFolder,     \* #activateFolder: <<>> (undefined) or <<folder>>
    lastEvent,          \* #lastEvent: <<>> (undefined) or <<KeyStatusEvent>>
    keyOfFolders,       \* #keyOfFolders: a Map, as a function on the folders it holds
    lookups,            \* updateFolder calls in flight, per folder
    inflight,           \* syncStatus calls of changeActivateFolder waiting for
                        \* their status query, per key they captured
    folderList,         \* the folders of the latest updateFolders call, as a set
    log,                \* the lines the latest step appended to the logger
    events,             \* number of editor events delivered so far
    activated,          \* whether activate has run
    \* the unlockCurrentKey command and the calls below it
    pc,                 \* position of the command: "idle" or the line of its await
    passphrase,         \* the passphrase argument: <<>> when idle
    theKey,             \* unlockCurrentKey's theKey: <<>> when idle
    keyInfo,            \* keyInfo of the syncStatus call the command waits in
    unlockResult,       \* how the latest unlockCurrentKey ended
    isUnlocked,         \* what the status query of line 279 resolved to: <<>>
                        \* before it has
    \* sign and its AssuanClient
    strictAlternation,  \* whether the Session refuses a second unanswered request
    agent,              \* state of the Session
    response,           \* sign's local `response`
    sent,               \* requests the Session wrote, in order
    received,           \* responses receiveResponse returned, in order
    calls,              \* the Session calls sign made, in order
    disposeCalls,       \* number of dispose() calls on the Session
    signResult,         \* how sign ended: "pending", "ok" or the error raised
    \* syncLoop and dispose
    disposed,           \* #disposed
    loop,               \* position of syncLoop: "none" before activate, the line
                        \* of its await, or "returned"
    loopKey,            \* keyInfo of the syncStatus call syncLoop waits in
    \* a call of one of the gpg helpers on its own
    call,               \* the helper called and its input
    callResult          \* <<>> while the call is pending, then <<its outcome>>

managerVars ==
    <<activateFolder, lastEvent, keyOfFolders, lookups, inflight, folderList>>

commandVars == <<pc, passphrase, theKey, keyInfo, unlockResult, isUnlocked>>

sessionVars ==
    <<strictAlternation, agent, response, sent, received, calls, disposeCalls,
      signResult>>

loopVars == <<disposed, loop, loopKey>>

helperVars == <<call, callResult>>

vars ==
    <<managerVars, log, events, activated, commandVars, sessionVars, loopVars,
      helperVars>>

Range(s) == {s[i] : i \in DOMAIN s}

(***************************************************************************)
(* The status query: gpg-connect-agent's output and isKeyUnlocked.         *)
(* A string is a sequence of symbols; " " and "\n" are the separators the  *)
(* code splits on, every other symbol stands for a run of other bytes.     *)
(***************************************************************************)
\* String.prototype.split: the pieces between the separators, the empty ones
\* included
Split(s, sep) ==
    LET seps == {i \in 1..Len(s) : s[i] = sep}
        pieces == Cardinality(seps) + 1
        cut(k) == IF k = 0 THEN 0
                  ELSE IF k = pieces THEN Len(s) + 1
                  ELSE CHOOSE i \in seps : Cardinality({j \in seps : j < i}) = k - 1
    IN  [k \in 1..pieces |-> SubSeq(s, cut(k - 1) + 1, cut(k) - 1)]

KeyinfoLine(keygrip, cached) ==
    <<"S", " ", "KEYINFO", " ", keygrip, " ", "D", " ", "-", " ", "-", " ",
      cached, " ", "P", " ", "-", " ", "-", " ", "-">>

\* what `gpg-connect-agent` may print for KEYINFO <keygrip>
StatusOutputs(keygrip) ==
    { KeyinfoLine(keygrip, "1") \o <<"\n", "OK", "\n">>,
      KeyinfoLine(keygrip, "-") \o <<"\n", "OK", "\n">>,
      <<"ERR", " ", "67108891", " ", "Not", " ", "found", "\n">>,
      <<"no gpg-agent running">> }

Returned(value) == [threw |-> FALSE, isUnlocked |-> value, message |-> <<>>]

Thrown(message) == [threw |-> TRUE, isUnlocked |-> FALSE, message |-> message]

\* isKeyUnlocked reading the token before the cache flag
isKeyUnlockedWrongToken(outputs) ==
    LET lines == Split(outputs, "\n")
        tokens == Split(lines[1], " ")
    IN  IF Len(lines) = 1 THEN Thrown(lines[1])
        ELSE IF Len(tokens) # 11 THEN Thrown(<<"Fail to parse KEYINFO output">>)
        ELSE Returned(tokens[6] = <<"1">>)

isKeyUnlocked(outputs) ==
    LET lines == Split(outputs, "\n")
        tokens == Split(lines[1], " ")
    IN  IF Len(lines) = 1 THEN Thrown(lines[1])
        ELSE IF Len(tokens) # 11 THEN Thrown(<<"Fail to parse KEYINFO output">>)
        ELSE Returned(tokens[7] = <<"1">>)

\* every way `await gpg.isKeyUnlocked(keygrip)` can settle: textSpawn
\* rejects, or resolves with an output that is then parsed
OutcomesOfKeygrip ==
    [keygrip \in {key.keygrip : key \in Keys} |->
        {Thrown(<<"spawn gpg-connect-agent failed">>)}
            \cup {isKeyUnlocked(o) : o \in StatusOutputs(keygrip)}]

QueryOutcomes(keygrip) == OutcomesOfKeygrip[keygrip]

(***************************************************************************)
(* The key catalog: parseGpgKey and getKeyInfo.  The key listing is a      *)
(* sequence of characters, and the pattern of parseGpgKey is matched over  *)
(* it as the regular expression engine matches it.                         *)
(***************************************************************************)
\* the characters of the listings that \w does not match
NonWordChars == {":", "\n", " ", "?", "<", ">", "@", "."}

\* [escaD?]
CapabilityChars == {"e", "s", "c", "a", "D", "?"}

\* whether `word` stands in `text` at position p
At(text, p, word) ==
    /\ p + Len(word) - 1 <= Len(text)
    /\ SubSeq(text, p, p + Len(word) - 1) = word

Least(positions) == CHOOSE q \in positions : \A r \in positions : q <= r

\* the position after the longest run of characters of `class` (or, with
\* `negated`, of characters outside it) that starts at p
RunEnd(text, p, class, negated) ==
    Least({q \in p..(Len(text) + 1) :
             q = Len(text) + 1 \/ ((text[q] \in class) = negated)})

\* (?:[^:]*:){n} from p: the position after it, 0 when it does not match
Fields(text, p, n) ==
    LET colons == {q \in p..Len(text) : text[q] = ":"}
    IN  IF n = 0 THEN p
        ELSE IF Cardinality(colons) < n THEN 0
        ELSE 1 + CHOOSE q \in colons : Cardinality({r \in colons : r <= q}) = n

NoMatch == [matched |-> FALSE]

\* the positions (?:[^:]*:)*? can stop at from p with a line feed next: p
\* itself, or any later position that follows a colon
LazyStops(text, p) ==
    {q \in p..Len(text) : text[q] = "\n" /\ (q = p \/ text[q - 1] = ":")}

\* \ngrp:(?:[^:]*:){8}(\w*):(?:[^:]*:)*? at q
grpAt(text, q) ==
    IF ~At(text, q, <<"\n", "g", "r", "p", ":">>) THEN NoMatch
    ELSE LET from == Fields(text, q + 5, 8)
             to == RunEnd(text, from, NonWordChars, TRUE)
         IN  IF from = 0 \/ ~At(text, to, <<":">>) THEN NoMatch
             ELSE [matched |-> TRUE, end |-> to + 1,
                   keygrip |-> SubSeq(text, from, to - 1)]

\* (?:[^:]*:)*? from p followed by the grp line: the engine tries the stops
\* from the nearest on
grpAfterLazy(text, p) ==
    LET stops == {q \in LazyStops(text, p) : grpAt(text, q).matched}
    IN  IF stops = {} THEN NoMatch ELSE grpAt(text, Least(stops))

\* \n(?:fpr|fp2):(?:[^:]*:){8}(\w*):(?:[^:]*:)*?\ngrp:... at q
fprAt(text, q) ==
    IF ~(At(text, q, <<"\n", "f", "p", "r", ":">>) \/ At(text, q, <<"\n", "f", "p", "2", ":">>))
    THEN NoMatch
    ELSE LET from == Fields(text, q + 5, 8)
             to == RunEnd(text, from, NonWordChars, TRUE)
         IN  IF from = 0 \/ ~At(text, to, <<":">>) THEN NoMatch
             ELSE LET grp == grpAfterLazy(text, to + 1)
                  IN  IF ~grp.matched THEN NoMatch
                      ELSE [matched |-> TRUE, end |-> grp.end,
                            fingerprint |-> SubSeq(text, from, to - 1),
                            keygrip |-> grp.keygrip]

\* fprAt after the lazy repetition, taking the farthest stop
fprAfterLazyGreedy(text, p) ==
    LET stops == {q \in LazyStops(text, p) : fprAt(text, q).matched}
    IN  IF stops = {} THEN NoMatch
        ELSE fprAt(text, CHOOSE q \in stops : \A r \in stops : q >= r)

\* (?:[^:]*:)*? from p followed by the fpr line and what follows it
fprAfterLazy(text, p) ==
    LET stops == {q \in LazyStops(text, p) : fprAt(text, q).matched}
    IN  IF stops = {} THEN NoMatch ELSE fprAt(text, Least(stops))

\* the whole pattern at position i: (pub|sub):(?:[^:]*:){10}([escaD?]+)\w*:
\* and the rest
matchAt(text, i) ==
    IF ~(At(text, i, <<"p", "u", "b", ":">>) \/ At(text, i, <<"s", "u", "b", ":">>))
    THEN NoMatch
    ELSE LET from == Fields(text, i + 4, 10)
             caps == RunEnd(text, from, CapabilityChars, FALSE)
             to == RunEnd(text, caps, NonWordChars, TRUE)
         IN  IF from = 0 \/ caps = from \/ ~At(text, to, <<":">>) THEN NoMatch
             ELSE LET fpr == fprAfterLazy(text, to + 1)
                  IN  IF ~fpr.matched THEN NoMatch
                      ELSE [matched |-> TRUE, end |-> fpr.end,
                            info |-> [type |-> SubSeq(text, i, i + 2),
                                      capabilities |-> SubSeq(text, from, caps - 1),
                                      fingerprint |-> fpr.fingerprint,
                                      keygrip |-> fpr.keygrip]]

\* the match pattern.exec finds from lastIndex on
execOnce(text, lastIndex) ==
    LET starts == {i \in lastIndex..Len(text) : matchAt(text, i).matched}
    IN  IF starts = {} THEN NoMatch ELSE matchAt(text, Least(starts))

\* the loop of lines 95-104: pattern.exec until it finds no match
RECURSIVE exec(_, _)
exec(text, lastIndex) ==
    CHOOSE infos \in {IF matched.matched
                      THEN <<matched.info>> \o exec(text, matched.end)
                      ELSE <<>> : matched \in {execOnce(text, lastIndex)}} : TRUE

parseGpgKey(rawText) == exec(rawText, 1)

\* String.prototype.includes
includes(s, sub) ==
    \E i \in 0..(Len(s) - Len(sub)) : SubSeq(s, i + 1, i + Len(sub)) = sub

\* the loop of lines 151-155 returning the last record that matches
findKeyLastMatch(infos, keyId) ==
    LET hits == {i \in DOMAIN infos : includes(infos[i].fingerprint, keyId)}
    IN  IF hits = {} THEN [threw |-> TRUE, message |-> <<"Cannot find key with ID: ">> \o keyId]
        ELSE [threw |-> FALSE, info |-> infos[CHOOSE i \in hits : \A j \in hits : i >= j]]

\* lines 151-157: the first record whose fingerprint includes the key id
findKey(infos, keyId) ==
    LET hits == {i \in DOMAIN infos : includes(infos[i].fingerprint, keyId)}
    IN  IF hits = {} THEN [threw |-> TRUE, message |-> <<"Cannot find key with ID: ">> \o keyId]
        ELSE [threw |-> FALSE, info |-> infos[Least(hits)]]

\* getKeyInfo, lines 148-157, on the listing `gpg` printed
getKeyInfo(keyInfoRaw, keyId) == findKey(parseGpgKey(keyInfoRaw), keyId)

(***************************************************************************)
(* KeyStatusManager: events, the folder map, syncStatus.                   *)
(***************************************************************************)
KeyStatusEvent(keyId, isLocked) == [keyId |-> keyId, isLocked |-> isLocked]

equal(left, right) == left.keyId = right.keyId /\ left.isLocked = right.isLocked

EmptyMap == [f \in {} |-> f]

MapSet(map, key, value) ==
    [k \in DOMAIN map \cup {key} |-> IF k = key THEN value ELSE map[k]]

BoolText(b) == IF b THEN "true" ELSE "false"

\* syncStatus, lines 185-192: the key whose status is queried, <<>> when the
\* call returns before its await
syncStatusKey ==
    IF activateFolder = <<>> THEN <<>>
    ELSE IF activateFolder[1] \notin DOMAIN keyOfFolders THEN <<>>
    ELSE <<keyOfFolders[activateFolder[1]]>>

\* syncStatus, lines 194-200: the new event, <<>> when the query threw
newEvent(key, outcome) ==
    IF outcome.threw THEN <<>>
    ELSE <<KeyStatusEvent(key.fingerprint, ~outcome.isUnlocked)>>

\* notifies without the comparison of line 213
notifiesAlways(key, outcome) ==
    newEvent(key, outcome) # <<>>

\* syncStatus, lines 208-216: whether the update functions are notified
notifies(key, outcome) ==
    /\ newEvent(key, outcome) # <<>>
    /\ \/ lastEvent = <<>>
       \/ ~equal(newEvent(key, outcome)[1], lastEvent[1])

\* notifyUpdate, lines 220-221
notifyUpdateLog(event) ==
    << <<"New event, key: ", event.keyId, ", is locked: ", BoolText(event.isLocked)>>,
       <<"Trigger status update functions">> >>

\* the lines syncStatus logs once its status query has settled
syncStatusLog(key, outcome) ==
    IF outcome.threw
    THEN << <<"Fail to check key status: ">> \o outcome.message >>
    ELSE IF notifies(key, outcome)
    THEN notifyUpdateLog(newEvent(key, outcome)[1])
    ELSE <<>>

\* syncStatus from its resumption at line 196 to its return
syncStatusSettle(key, outcome) ==
    /\ lastEvent' = IF notifies(key, outcome) THEN newEvent(key, outcome)
                    ELSE lastEvent
    /\ log' = syncStatusLog(key, outcome)

(***************************************************************************)
(* The Session (AssuanClient): AwaitingGreeting -> Ready <-> Awaiting-     *)
(* Response, terminal Closed.                                              *)
(***************************************************************************)
InitializeOutcomes == {"ok", "ConnectionError"}

\* sendRequest in Session state `state`; `written` is whether the transport
\* takes the line
sendRequest(state, written) ==
    IF state = "Closed" THEN "SessionClosed"
    ELSE IF strictAlternation /\ state # "Ready" THEN "ProtocolViolation"
    ELSE IF ~written THEN "IOError"
    ELSE "ok"

Received(r) == [error |-> "", response |-> r]

ReceiveFailed(e) == [error |-> e, response |-> NoResponse]

\* every way one receiveResponse can settle on an open Session
ReceiveOutcomes ==
    {Received(r) : r \in Responses} \cup {ReceiveFailed(e) : e \in ReceiveFailures}

receiveResponse(state, outcome) ==
    IF state = "Closed" THEN ReceiveFailed("SessionClosed") ELSE outcome

checkType(resp, expected) == resp.type = expected

\* one call of sign on its agent, with how it ended ("ok" or the error raised)
Call(op, outcome) == [op |-> op, outcome |-> outcome]

(***************************************************************************)
(* Initial state: a constructed KeyStatusManager, no command running.      *)
(***************************************************************************)
NoSession ==
    /\ agent = "None"
    /\ response = NoResponse
    /\ sent = <<>>
    /\ received = <<>>
    /\ calls = <<>>
    /\ disposeCalls = 0
    /\ signResult = "pending"

\* no helper is called on its own
NoCall == [fn |-> "none"]

NoLoop ==
    /\ disposed = FALSE
    /\ loop = "none"
    /\ loopKey = <<>>

\* the extension before activate: no manager yet, no command running
NotActivated ==
    /\ NoLoop
    /\ activateFolder = <<>>
    /\ lastEvent = <<>>
    /\ keyOfFolders = EmptyMap
    /\ lookups = [f \in Folders |-> 0]
    /\ inflight = [k \in Keys |-> 0]
    /\ folderList = {}
    /\ log = <<>>
    /\ events = 0
    /\ activated = FALSE
    /\ pc = "idle"
    /\ passphrase = <<>>
    /\ theKey = <<>>
    /\ keyInfo = <<>>
    /\ unlockResult = "none"
    /\ isUnlocked = <<>>
    /\ strictAlternation \in BOOLEAN
    /\ NoSession

Init ==
    /\ NotActivated
    /\ call = NoCall
    /\ callResult = <<>>

(***************************************************************************)
(* activate, and the events the editor delivers afterwards.                *)
(***************************************************************************)
\* the values of vscode.workspace.workspaceFolders, as lists of paths
WorkspaceFolders ==
    {<<>>} \cup {<<f>> : f \in Folders}
        \cup {<<p[1], p[2]>> : p \in {q \in Folders \X Folders : q[1] # q[2]}}

\* activate, lines 40, 63-67 and 95 when no workspace is open: syncLoop runs
\* up to its first sleep
activateNoWorkspace ==
    /\ ~activated
    /\ activated' = TRUE
    /\ loop' = "L170"
    /\ log' = << <<"Got one update function">> >>
    /\ UNCHANGED <<managerVars, events, commandVars, sessionVars, disposed, loopKey,
                   helperVars>>

\* activate, lines 40, 63-67 and 95: syncLoop up to its first sleep,
\* updateFolders(folders), then
\* changeActivateFolder(folders[0]), whose syncStatus returns at line 191
\* because the map was cleared in the same turn
activateWorkspace(folders) ==
    /\ ~activated
    /\ activated' = TRUE
    /\ keyOfFolders' = EmptyMap
    /\ folderList' = Range(folders)
    /\ lookups' = [f \in Folders |-> IF f \in Range(folders) THEN lookups[f] + 1
                                     ELSE lookups[f]]
    /\ activateFolder' = IF folders = <<>> THEN <<>> ELSE <<folders[1]>>
    /\ log' = << <<"Update folder information">> >>
                \o (IF folders = <<>> THEN <<>>
                    ELSE << <<"Change folder to ", folders[1]>> >>)
                \o << <<"Got one update function">> >>
    /\ loop' = "L170"
    /\ UNCHANGED <<lastEvent, inflight, events, commandVars, sessionVars, disposed,
                   loopKey, helperVars>>

\* an event handler of activate runs; deactivation disposes the handlers
\* with the manager
event ==
    /\ activated
    /\ ~disposed
    /\ events < MaxEvents
    /\ events' = events + 1
    /\ UNCHANGED <<activated, loopVars, helperVars>>

(***************************************************************************)
(* KeyStatusManager operations.                                            *)
(***************************************************************************)
\* updateFolders, lines 228-234, with each updateFolder up to its first await
updateFolders(folders) ==
    /\ event
    /\ \A f \in folders : lookups[f] < MaxLookups
    /\ log' = << <<"Update folder information">> >>
    /\ keyOfFolders' = EmptyMap
    /\ folderList' = folders
    /\ lookups' = [f \in Folders |-> IF f \in folders THEN lookups[f] + 1
                                     ELSE lookups[f]]
    /\ UNCHANGED <<activateFolder, lastEvent, inflight, commandVars, sessionVars>>

\* updateFolder, lines 238-245: the lookups end with a key for the folder
updateFolderFound(folder, key) ==
    /\ UNCHANGED <<events, activated, loopVars, helperVars>>
    /\ lookups[folder] > 0
    /\ lookups' = [lookups EXCEPT ![folder] = @ - 1]
    /\ log' = << <<"Find key ", key.fingerprint, " for folder ", folder>> >>
    /\ keyOfFolders' = MapSet(keyOfFolders, folder, key)
    /\ UNCHANGED <<activateFolder, lastEvent, inflight, folderList, commandVars,
                   sessionVars>>

\* updateFolder, lines 239-241: signing is not activated for the folder
updateFolderNotSigned(folder) ==
    /\ UNCHANGED <<events, activated, loopVars, helperVars>>
    /\ lookups[folder] > 0
    /\ lookups' = [lookups EXCEPT ![folder] = @ - 1]
    /\ log' = <<>>
    /\ UNCHANGED <<activateFolder, lastEvent, keyOfFolders, inflight, folderList,
                   commandVars, sessionVars>>

\* updateFolder, lines 246-248: one of the lookups threw
updateFolderFailed(folder) ==
    /\ UNCHANGED <<events, activated, loopVars, helperVars>>
    /\ lookups[folder] > 0
    /\ lookups' = [lookups EXCEPT ![folder] = @ - 1]
    /\ log' = << <<"Can not found key for folder: ", folder>> >>
    /\ UNCHANGED <<activateFolder, lastEvent, keyOfFolders, inflight, folderList,
                   commandVars, sessionVars>>

\* changeActivateFolder, lines 253-259, with syncStatus up to its await
changeActivateFolder(folder) ==
    /\ event
    /\ activateFolder # <<folder>>
    /\ log' = << <<"Change folder to ", folder>> >>
    /\ activateFolder' = <<folder>>
    /\ LET key == IF folder \in DOMAIN keyOfFolders THEN <<keyOfFolders[folder]>>
                  ELSE <<>>
       IN  IF key = <<>> THEN UNCHANGED inflight
           ELSE /\ inflight[key[1]] < MaxInflight
                /\ inflight' = [inflight EXCEPT ![key[1]] = @ + 1]
    /\ UNCHANGED <<lastEvent, keyOfFolders, lookups, folderList, commandVars,
                   sessionVars>>

\* changeActivateFolder, lines 254-256: the folder is the active one already
changeActivateFolderSame(folder) ==
    /\ event
    /\ activateFolder = <<folder>>
    /\ log' = <<>>
    /\ UNCHANGED <<managerVars, commandVars, sessionVars>>

\* syncStatus, lines 196-216, for a call made by changeActivateFolder
syncStatusDone(key, outcome) ==
    /\ UNCHANGED <<events, activated, loopVars, helperVars>>
    /\ inflight[key] > 0
    /\ inflight' = [inflight EXCEPT ![key] = @ - 1]
    /\ syncStatusSettle(key, outcome)
    /\ UNCHANGED <<activateFolder, keyOfFolders, lookups, folderList, commandVars,
                   sessionVars>>

(***************************************************************************)
(* syncLoop and dispose.                                                   *)
(***************************************************************************)
\* syncLoopTurn with a loop condition that is always true
syncLoopTurnUndisposed ==
    IF syncStatusKey # <<>> THEN loop' = "L173" /\ loopKey' = syncStatusKey
    ELSE loop' = "L175" /\ loopKey' = <<>>

\* syncLoopTurn without the call of syncStatus
syncLoopTurnIdle ==
    IF disposed THEN loop' = "returned" /\ loopKey' = <<>>
    ELSE loop' = "L175" /\ loopKey' = <<>>

\* lines 171-175, from a sleep that has ended: the loop condition, then
\* syncStatus up to its await when a folder is active, else the next sleep
syncLoopTurn ==
    IF disposed THEN loop' = "returned" /\ loopKey' = <<>>
    ELSE IF syncStatusKey # <<>> THEN loop' = "L173" /\ loopKey' = syncStatusKey
    ELSE loop' = "L175" /\ loopKey' = <<>>

\* line 170: the first sleep ends
syncLoopStarted ==
    /\ loop = "L170"
    /\ syncLoopTurn
    /\ log' = <<>>
    /\ UNCHANGED <<managerVars, events, activated, commandVars, sessionVars, disposed,
                   helperVars>>

\* line 175: the sleep of an iteration ends
syncLoopSlept ==
    /\ loop = "L175"
    /\ syncLoopTurn
    /\ log' = <<>>
    /\ UNCHANGED <<managerVars, events, activated, commandVars, sessionVars, disposed,
                   helperVars>>

\* line 173: the syncStatus of the loop settles (lines 196-216) and the loop
\* sleeps
syncLoopSynced ==
    /\ loop = "L173"
    /\ \E outcome \in QueryOutcomes(loopKey[1].keygrip) :
         syncStatusSettle(loopKey[1], outcome)
    /\ loop' = "L175"
    /\ loopKey' = <<>>
    /\ UNCHANGED <<activateFolder, keyOfFolders, lookups, folderList, inflight,
                   events, activated, commandVars, sessionVars, disposed,
                   helperVars>>

\* lines 290-292, called when the extension is deactivated
dispose ==
    /\ activated
    /\ ~disposed
    /\ disposed' = TRUE
    /\ log' = <<>>
    /\ UNCHANGED <<managerVars, events, activated, commandVars, sessionVars, loop,
                   loopKey, helperVars>>

syncLoop == syncLoopStarted \/ syncLoopSlept \/ syncLoopSynced

(***************************************************************************)
(* The gpgIndicator.unlockCurrentKey command: the handler of activate,     *)
(* unlockCurrentKey and unlockByKey.                                       *)
(***************************************************************************)
\* unlockCurrentKey rejects or returns: the handler resumes at line 51
unlockSettles(result) ==
    /\ unlockResult' = result
    /\ pc' = "L51"

\* handler lines 45-51 and unlockCurrentKey lines 269-271
unlockNoActiveFolder(input) ==
    /\ event
    /\ pc = "idle"
    /\ activateFolder = <<>>
    /\ passphrase' = <<input>>
    /\ unlockSettles("No active folder")
    /\ log' = <<>>
    /\ UNCHANGED <<managerVars, theKey, isUnlocked, keyInfo, sessionVars>>

\* handler lines 45-51 and unlockCurrentKey lines 269-276
unlockNoKey(input) ==
    /\ event
    /\ pc = "idle"
    /\ activateFolder # <<>>
    /\ activateFolder[1] \notin DOMAIN keyOfFolders
    /\ passphrase' = <<input>>
    /\ unlockSettles("No key for current folder")
    /\ log' = <<>>
    /\ UNCHANGED <<managerVars, theKey, isUnlocked, keyInfo, sessionVars>>

\* handler lines 45-51 and unlockCurrentKey lines 269-278, with syncStatus up
\* to its await
unlockCurrentKey(input) ==
    /\ event
    /\ pc = "idle"
    /\ activateFolder # <<>>
    /\ activateFolder[1] \in DOMAIN keyOfFolders
    /\ passphrase' = <<input>>
    /\ theKey' = <<keyOfFolders[activateFolder[1]]>>
    /\ isUnlocked' = <<>>
    /\ keyInfo' = syncStatusKey
    /\ pc' = "L278"
    /\ unlockResult' = "pending"
    /\ log' = <<>>
    /\ UNCHANGED <<managerVars, sessionVars>>

\* line 278: the first syncStatus settles; line 279 starts the status query
unlockSynced ==
    /\ UNCHANGED <<events, activated, loopVars, helperVars>>
    /\ pc = "L278"
    /\ \E outcome \in QueryOutcomes(keyInfo[1].keygrip) :
         /\ syncStatusSettle(keyInfo[1], outcome)
         /\ keyInfo' = <<>>
         /\ pc' = "L279"
         /\ UNCHANGED <<activateFolder, keyOfFolders, lookups, folderList, inflight,
                        passphrase, theKey, isUnlocked, unlockResult, sessionVars>>

\* line 279: the status query threw
unlockQueryFailed ==
    /\ UNCHANGED <<events, activated, loopVars, helperVars>>
    /\ pc = "L279"
    /\ \E outcome \in QueryOutcomes(theKey[1].keygrip) :
         /\ outcome.threw
         /\ unlockSettles("status query failed")
         /\ log' = <<>>
         /\ UNCHANGED <<managerVars, passphrase, theKey, isUnlocked, keyInfo,
                        sessionVars>>

\* unlockSkipped without the return of line 281
unlockSkippedFallingThrough ==
    /\ UNCHANGED <<events, activated, loopVars, helperVars>>
    /\ pc = "L279"
    /\ \E outcome \in QueryOutcomes(theKey[1].keygrip) :
         /\ ~outcome.threw
         /\ outcome.isUnlocked
         /\ isUnlocked' = <<outcome.isUnlocked>>
         /\ log' = << <<"Key is already unlocked, skip unlock request">> >>
         /\ pc' = "L170"
         /\ UNCHANGED <<managerVars, passphrase, theKey, keyInfo, unlockResult,
                        sessionVars>>

\* lines 279-281: the key is unlocked already
unlockSkipped ==
    /\ UNCHANGED <<events, activated, loopVars, helperVars>>
    /\ pc = "L279"
    /\ \E outcome \in QueryOutcomes(theKey[1].keygrip) :
         /\ ~outcome.threw
         /\ outcome.isUnlocked
         /\ isUnlocked' = <<outcome.isUnlocked>>
         /\ log' = << <<"Key is already unlocked, skip unlock request">> >>
         /\ unlockSettles("ok")
         /\ UNCHANGED <<managerVars, passphrase, theKey, keyInfo, sessionVars>>

\* unlockTry logging the passphrase with the key
unlockTryLoggingPassphrase ==
    /\ UNCHANGED <<events, activated, loopVars, helperVars>>
    /\ pc = "L279"
    /\ \E outcome \in QueryOutcomes(theKey[1].keygrip) :
         /\ ~outcome.threw
         /\ ~outcome.isUnlocked
         /\ log' = << <<"Try to unlock current key: ", theKey[1].fingerprint,
                        " with ", passphrase[1]>> >>
         /\ isUnlocked' = <<outcome.isUnlocked>>
         /\ pc' = "L170"
         /\ UNCHANGED <<managerVars, passphrase, theKey, keyInfo, unlockResult,
                        sessionVars>>

\* lines 279-285: the key is locked; unlockByKey asks for the socket path
unlockTry ==
    /\ UNCHANGED <<events, activated, loopVars, helperVars>>
    /\ pc = "L279"
    /\ \E outcome \in QueryOutcomes(theKey[1].keygrip) :
         /\ ~outcome.threw
         /\ ~outcome.isUnlocked
         /\ log' = << <<"Try to unlock current key: ", theKey[1].fingerprint>> >>
         /\ isUnlocked' = <<outcome.isUnlocked>>
         /\ pc' = "L170"
         /\ UNCHANGED <<managerVars, passphrase, theKey, keyInfo, unlockResult,
                        sessionVars>>

\* unlockByKey line 170: gpgconf fails
getSocketPathFailed ==
    /\ UNCHANGED <<events, activated, loopVars, helperVars>>
    /\ pc = "L170"
    /\ unlockSettles("getSocketPath failed")
    /\ log' = <<>>
    /\ UNCHANGED <<managerVars, passphrase, theKey, isUnlocked, keyInfo, sessionVars>>

\* unlockByKey lines 170-173 and sign lines 35-36: the client is constructed
\* and initialize is awaited
signStart ==
    /\ UNCHANGED <<events, activated, loopVars, helperVars>>
    /\ pc = "L170"
    /\ agent' = "Created"
    /\ pc' = "L36"
    /\ log' = <<>>
    /\ UNCHANGED <<managerVars, passphrase, theKey, isUnlocked, keyInfo, unlockResult,
                   strictAlternation, response, sent, received, calls,
                   disposeCalls, signResult>>

\* sign has settled: its agent and its response are out of scope
signReturned ==
    /\ agent' = "None"
    /\ response' = NoResponse
    /\ sent' = <<>>
    /\ received' = <<>>
    /\ calls' = <<>>
    /\ disposeCalls' = 0
    /\ signResult' = "pending"
    /\ UNCHANGED strictAlternation

\* line 285: sign, and with it unlockByKey, raised
unlockSignFailed ==
    /\ UNCHANGED <<events, activated, loopVars, helperVars>>
    /\ pc = "L173"
    /\ signResult # "ok"
    /\ unlockSettles(signResult)
    /\ log' = <<>>
    /\ signReturned
    /\ UNCHANGED <<managerVars, passphrase, theKey, isUnlocked, keyInfo>>

\* lines 285-286: sign returned; the second syncStatus returns before its await
unlockSignedNoSync ==
    /\ UNCHANGED <<events, activated, loopVars, helperVars>>
    /\ pc = "L173"
    /\ signResult = "ok"
    /\ syncStatusKey = <<>>
    /\ unlockSettles("ok")
    /\ log' = <<>>
    /\ signReturned
    /\ UNCHANGED <<managerVars, passphrase, theKey, isUnlocked, keyInfo>>

\* lines 285-286: sign returned; the second syncStatus queries the status
unlockSigned ==
    /\ UNCHANGED <<events, activated, loopVars, helperVars>>
    /\ pc = "L173"
    /\ signResult = "ok"
    /\ syncStatusKey # <<>>
    /\ keyInfo' = syncStatusKey
    /\ pc' = "L286"
    /\ log' = <<>>
    /\ signReturned
    /\ UNCHANGED <<managerVars, passphrase, theKey, isUnlocked, unlockResult>>

\* line 286: the second syncStatus settles and unlockCurrentKey returns
unlockResynced ==
    /\ UNCHANGED <<events, activated, loopVars, helperVars>>
    /\ pc = "L286"
    /\ \E outcome \in QueryOutcomes(keyInfo[1].keygrip) :
         /\ syncStatusSettle(keyInfo[1], outcome)
         /\ keyInfo' = <<>>
         /\ unlockSettles("ok")
         /\ UNCHANGED <<activateFolder, keyOfFolders, lookups, folderList, inflight,
                        passphrase, theKey, isUnlocked, sessionVars>>

\* handler lines 51-57: the message is shown; the command's locals and the
\* Session go out of scope
unlockCommandDone ==
    /\ UNCHANGED <<events, activated, loopVars, helperVars>>
    /\ pc = "L51"
    /\ pc' = "idle"
    /\ passphrase' = <<>>
    /\ theKey' = <<>>
    /\ keyInfo' = <<>>
    /\ isUnlocked' = <<>>
    /\ unlockResult' = "none"
    /\ log' = <<>>
    /\ UNCHANGED <<managerVars, sessionVars>>

(***************************************************************************)
(* sign: the signing handshake.                                            *)
(***************************************************************************)
signFrame ==
    UNCHANGED <<managerVars, events, activated, passphrase, theKey, isUnlocked, keyInfo,
                unlockResult, strictAlternation, loopVars, helperVars>>

\* lines 75-77: the try block is left with `outcome` ("ok" or the error
\* raised): the finally block disposes the agent and sign settles
finally(outcome) ==
    /\ agent' = "Closed"
    /\ disposeCalls' = disposeCalls + 1
    /\ signResult' = outcome
    /\ pc' = "L173"

\* line 36: initialize
initialize(outcome) ==
    /\ pc = "L36"
    /\ IF outcome = "ok"
       THEN /\ agent' = "AwaitingGreeting"
            /\ pc' = "L38"
            /\ UNCHANGED signResult
       ELSE /\ signResult' = outcome
            /\ pc' = "L173"
            /\ UNCHANGED agent
    /\ log' = <<>>
    /\ UNCHANGED <<response, sent, received, calls, disposeCalls>>
    /\ signFrame

\* sendAt retrying a request the transport did not take
sendAtRetrying(at, request, next) ==
    /\ pc = at
    /\ \E written \in BOOLEAN :
         LET outcome == sendRequest(agent, written)
         IN  /\ calls' = Append(calls, Call("sendRequest", outcome))
             /\ IF outcome = "ok"
                THEN /\ sent' = Append(sent, request)
                     /\ agent' = "AwaitingResponse"
                     /\ pc' = next
                     /\ UNCHANGED <<disposeCalls, signResult>>
                ELSE IF outcome = "IOError" /\ Len(calls) < 20
                THEN UNCHANGED <<sent, agent, pc, disposeCalls, signResult>>
                ELSE /\ finally(outcome)
                     /\ UNCHANGED sent
    /\ log' = <<>>
    /\ UNCHANGED <<response, received>>
    /\ signFrame

\* `await agent.sendRequest(request)` at line `at`, then on to line `next`
sendAt(at, request, next) ==
    /\ pc = at
    /\ \E written \in BOOLEAN :
         LET outcome == sendRequest(agent, written)
         IN  /\ calls' = Append(calls, Call("sendRequest", outcome))
             /\ IF outcome = "ok"
                THEN /\ sent' = Append(sent, request)
                     /\ agent' = "AwaitingResponse"
                     /\ pc' = next
                     /\ UNCHANGED <<disposeCalls, signResult>>
                ELSE /\ finally(outcome)
                     /\ UNCHANGED sent
    /\ log' = <<>>
    /\ UNCHANGED <<response, received>>
    /\ signFrame

\* `response = await agent.receiveResponse()` at line `at` and the
\* `response.checkType(expected)` after it, then on to line `next`
\* ("return": the end of the try block)
receiveAt(at, expected, next) ==
    /\ pc = at
    /\ \E outcome \in ReceiveOutcomes :
         LET got == receiveResponse(agent, outcome)
         IN  /\ calls' = Append(calls, Call("receiveResponse",
                                IF got.error = "" THEN "ok" ELSE got.error))
             /\ IF got.error # ""
                THEN /\ finally(got.error)
                     /\ UNCHANGED <<response, received>>
                ELSE /\ response' = got.response
                     /\ received' = Append(received, got.response)
                     /\ IF ~checkType(got.response, expected)
                        THEN finally("UnexpectedResponse")
                        ELSE IF next = "return"
                        THEN finally("ok")
                        ELSE /\ agent' = "Ready"
                             /\ pc' = next
                             /\ UNCHANGED <<disposeCalls, signResult>>
    /\ log' = <<>>
    /\ UNCHANGED sent
    /\ signFrame

\* lines 38-39
receiveGreeting == receiveAt("L38", "ok", "L41")

\* line 41
sendOPTION == sendAt("L41", RequestCommand("OPTION", <<"pinentry-mode loopback">>), "L42")

\* lines 42-43
receiveOPTION == receiveAt("L42", "ok", "L45")

\* sendSIGKEY sending the command of line 49 instead
sendSIGKEYOutOfOrder ==
    sendAt("L45", RequestCommand("SETHASH", <<"--hash=sha1 ", SHA1_EMPTY_DIGEST>>), "L46")

\* line 45
sendSIGKEY == sendAt("L45", RequestCommand("SIGKEY", <<theKey[1].keygrip>>), "L46")

\* lines 46-47
receiveSIGKEY == receiveAt("L46", "ok", "L49")

\* line 49
sendSETHASH ==
    sendAt("L49", RequestCommand("SETHASH", <<"--hash=sha1 ", SHA1_EMPTY_DIGEST>>), "L50")

\* lines 50-51
receiveSETHASH == receiveAt("L50", "ok", "L53")

\* line 53
sendPKSIGN == sendAt("L53", RequestCommand("PKSIGN", <<>>), "L54")

\* pksignBranch with the two branches confused: RawData taken for the
\* locked key's reply
pksignBranchConfused(resp) ==
    IF resp.type = "rawData" THEN "L60"
    ELSE IF resp.type = "information" THEN "L57"
    ELSE "L69"

\* lines 55-70: where the reply to PKSIGN leads: line 57 (key unlocked),
\* line 60 (key locked) or the throw of line 69
pksignBranch(resp) ==
    IF resp.type = "rawData" THEN "L57"
    ELSE IF resp.type = "information" THEN "L60"
    ELSE "L69"

\* lines 54-70: the reply to PKSIGN and the branch on its type
receivePKSIGN ==
    /\ pc = "L54"
    /\ \E outcome \in ReceiveOutcomes :
         LET got == receiveResponse(agent, outcome)
         IN  /\ calls' = Append(calls, Call("receiveResponse",
                                IF got.error = "" THEN "ok" ELSE got.error))
             /\ IF got.error # ""
                THEN /\ finally(got.error)
                     /\ UNCHANGED <<response, received>>
                ELSE /\ response' = got.response
                     /\ received' = Append(received, got.response)
                     /\ IF pksignBranch(got.response) = "L69"
                        THEN finally("unhandled signing flow")
                        ELSE /\ agent' = "Ready"
                             /\ pc' = pksignBranch(got.response)
                             /\ UNCHANGED <<disposeCalls, signResult>>
    /\ log' = <<>>
    /\ UNCHANGED sent
    /\ signFrame

\* lines 57-58
receiveUnlockedStatus == receiveAt("L57", "ok", "L72")

\* lines 60-61
receiveInquire == receiveAt("L60", "inquire", "L62")

\* line 62
sendPassphrase == sendAt("L62", RequestRawData(passphrase[1]), "L63")

\* line 63
sendEND == sendAt("L63", RequestCommand("END", <<>>), "L64")

\* receiveSignature going on to BYE without the status after the signature
receiveSignatureUndrained == receiveAt("L64", "rawData", "L72")

\* lines 64-65
receiveSignature == receiveAt("L64", "rawData", "L66")

\* lines 66-67
receiveLockedStatus == receiveAt("L66", "ok", "L72")

\* line 72
sendBYE == sendAt("L72", RequestCommand("BYE", <<>>), "L73")

\* lines 73-74
receiveBYE == receiveAt("L73", "ok", "return")

sign ==
    \/ \E outcome \in InitializeOutcomes : initialize(outcome)
    \/ receiveGreeting
    \/ sendOPTION
    \/ receiveOPTION
    \/ sendSIGKEY
    \/ receiveSIGKEY
    \/ sendSETHASH
    \/ receiveSETHASH
    \/ sendPKSIGN
    \/ receivePKSIGN
    \/ receiveUnlockedStatus
    \/ receiveInquire
    \/ sendPassphrase
    \/ sendEND
    \/ receiveSignature
    \/ receiveLockedStatus
    \/ sendBYE
    \/ receiveBYE

(***************************************************************************)
(* The specification.                                                      *)
(***************************************************************************)
Manager ==
    \/ \E folders \in SUBSET Folders : updateFolders(folders)
    \/ \E folder \in Folders, key \in Keys : updateFolderFound(folder, key)
    \/ \E folder \in Folders : updateFolderNotSigned(folder)
    \/ \E folder \in Folders : updateFolderFailed(folder)
    \/ \E folder \in Folders : changeActivateFolder(folder)
    \/ \E folder \in Folders : changeActivateFolderSame(folder)
    \/ \E key \in Keys : \E outcome \in QueryOutcomes(key.keygrip) :
           syncStatusDone(key, outcome)

UnlockCommand ==
    \/ \E input \in Passphrases : unlockNoActiveFolder(input)
    \/ \E input \in Passphrases : unlockNoKey(input)
    \/ \E input \in Passphrases : unlockCurrentKey(input)
    \/ unlockSynced
    \/ unlockQueryFailed
    \/ unlockSkipped
    \/ unlockTry
    \/ getSocketPathFailed
    \/ signStart
    \/ unlockSignFailed
    \/ unlockSignedNoSync
    \/ unlockSigned
    \/ unlockResynced
    \/ unlockCommandDone

Activate ==
    \/ activateNoWorkspace
    \/ \E folders \in WorkspaceFolders : activateWorkspace(folders)

Next == Activate \/ Manager \/ UnlockCommand \/ sign

Spec == Init /\ [][Next]_vars

(***************************************************************************)
(* The handshake on its own: sign is entered (line 35 done, initialize     *)
(* awaited) with a keygrip and a passphrase, from a manager state in which *)
(* unlockCurrentKey reaches it: an active folder with that key, last seen  *)
(* locked.                                                                 *)
(***************************************************************************)
InitSign ==
    /\ disposed = FALSE
    /\ loop = "L170"
    /\ loopKey = <<>>
    /\ call = NoCall
    /\ callResult = <<>>
    /\ \E key \in Keys, input \in Passphrases :
         /\ theKey = <<key>>
         /\ passphrase = <<input>>
         /\ keyOfFolders = MapSet(EmptyMap, "/ws/a", key)
         /\ lastEvent = <<KeyStatusEvent(key.fingerprint, TRUE)>>
    /\ activateFolder = <<"/ws/a">>
    /\ lookups = [f \in Folders |-> 0]
    /\ inflight = [k \in Keys |-> 0]
    /\ folderList = {"/ws/a"}
    /\ log = <<>>
    /\ events = 1
    /\ activated = TRUE
    /\ pc = "L36"
    /\ keyInfo = <<>>
    /\ unlockResult = "pending"
    /\ isUnlocked = <<FALSE>>
    /\ strictAlternation \in BOOLEAN
    /\ agent = "Created"
    /\ response = NoResponse
    /\ sent = <<>>
    /\ received = <<>>
    /\ calls = <<>>
    /\ disposeCalls = 0
    /\ signResult = "pending"

SpecSign == InitSign /\ [][sign]_vars

(***************************************************************************)
(* The gpg helpers on their own: one call of isKeyUnlocked, parseGpgKey or *)
(* getKeyInfo on an output of the command it reads.                        *)
(***************************************************************************)
\* key blocks a listing holds at most
MaxBlocks == 3

\* the keys of the keyring
CatalogKeys ==
    { [fingerprint |-> <<"1", "A", "B", "C">>, keygrip |-> <<"9", "1">>],
      [fingerprint |-> <<"A", "B", "C", "F">>, keygrip |-> <<"9", "2">>],
      [fingerprint |-> <<"a", "b", "C", "F">>, keygrip |-> <<"9", "3">>] }

\* the key ids git may be configured with
KeyIds ==
    { <<"A", "B", "C">>, <<"B", "C", "F">>, <<"C", "F">>, <<"b", "C">>,
      <<"a", "b", "c">>, <<"C", "F", "1">>, <<>> }

\* pub:u:4:1:K:1:::u:::scESC:::::x::0:
PubLine ==
    <<"p", "u", "b", ":", "u", ":", "4", ":", "1", ":", "K", ":", "1", ":",
      ":", ":", "u", ":", ":", ":", "s", "c", "E", "S", "C", ":", ":", ":",
      ":", ":", "x", ":", ":", "0", ":", "\n">>

\* sub:u:4:1:K:1::::::e:::::x::
SubLine ==
    <<"s", "u", "b", ":", "u", ":", "4", ":", "1", ":", "K", ":", "1", ":",
      ":", ":", ":", ":", ":", "e", ":", ":", ":", ":", ":", "x", ":", ":",
      "\n">>

\* fpr:::::::::<fingerprint>:
FprLine(key) ==
    <<"f", "p", "r", ":", ":", ":", ":", ":", ":", ":", ":", ":">>
        \o key.fingerprint \o <<":", "\n">>

\* grp:::::::::<keygrip>:
GrpLine(key) ==
    <<"g", "r", "p", ":", ":", ":", ":", ":", ":", ":", ":", ":">>
        \o key.keygrip \o <<":", "\n">>

\* uid:u::::1::H::N <m@x>::::::::::0:
UidLine ==
    <<"u", "i", "d", ":", "u", ":", ":", ":", ":", "1", ":", ":", "H", ":",
      ":", "N", " ", "<", "m", "@", "x", ">", ":", ":", ":", ":", ":", ":",
      ":", ":", ":", ":", "0", ":", "\n">>

\* tru::1:1:0:3:1:5, the first line gpg prints
TruLine ==
    <<"t", "r", "u", ":", ":", "1", ":", "1", ":", "0", ":", "3", ":", "1",
      ":", "5", "\n">>

\* a listing: its key blocks in document order; whether the blocks after the
\* first are subkeys; whether a user id follows each primary key's block;
\* whether the trust record comes first
Listings ==
    [keys : UNION {[1..n -> CatalogKeys] : n \in 0..MaxBlocks},
     subkeys : BOOLEAN, uids : BOOLEAN, header : BOOLEAN]

IsSub(listing, i) == listing.subkeys /\ i > 1

KeyBlock(listing, i) ==
    (IF IsSub(listing, i) THEN SubLine ELSE PubLine)
        \o FprLine(listing.keys[i]) \o GrpLine(listing.keys[i])
        \o (IF listing.uids /\ ~IsSub(listing, i) THEN UidLine ELSE <<>>)

RECURSIVE KeyBlocks(_, _)
KeyBlocks(listing, i) ==
    IF i > Len(listing.keys) THEN <<>>
    ELSE KeyBlock(listing, i) \o KeyBlocks(listing, i + 1)

ListingText(listing) ==
    (IF listing.header THEN TruLine ELSE <<>>) \o KeyBlocks(listing, 1)

RECURSIVE JoinFrom(_, _, _)
JoinFrom(tokens, i, sep) ==
    IF i > Len(tokens) THEN <<>>
    ELSE IF i = Len(tokens) THEN tokens[i]
    ELSE tokens[i] \o <<sep>> \o JoinFrom(tokens, i + 1, sep)

Join(tokens, sep) == JoinFrom(tokens, 1, sep)

\* the tokens of a status line, the cache flag among them
StatusTokens(flag) ==
    <<<<"S">>, <<"KEYINFO">>, <<"GRIP_A">>, <<"D">>, <<"-">>, <<"-">>, flag, <<"P">>,
      <<"-">>, <<"-">>, <<"-">>, <<"-">>>>

CacheFlags == {<<"1">>, <<"-">>, <<"0">>, <<"1", "1">>}

\* what gpg-connect-agent prints: a line of tokens and what follows it.  The
\* agent ends every line it prints with a line feed; an output without one is
\* no status line: nothing, or a diagnostic of the command itself
StatusPrints ==
    [tokens : {SubSeq(StatusTokens(flag), 1, n) : flag \in CacheFlags, n \in 9..12}
                \cup {<<<<"ERR">>, <<"67108891">>, <<"Not">>, <<"found">>>>, <<<<"OK">>>>},
     ending : {<<"\n", "OK", "\n">>, <<"\n">>}]
        \cup [tokens : {<<>>, <<<<"no">>, <<"gpg-agent">>, <<"running">>>>},
              ending : {<<>>}]

StatusText(print) == Join(print.tokens, " ") \o print.ending

HelperCalls ==
    {[fn |-> "isKeyUnlocked", print |-> p] : p \in StatusPrints}
        \cup {[fn |-> "parseGpgKey", listing |-> l] : l \in Listings}
        \cup {[fn |-> "getKeyInfo", listing |-> l, keyId |-> k] :
                l \in {m \in Listings : m.subkeys /\ ~m.uids /\ ~m.header},
                k \in KeyIds}

programVars ==
    <<managerVars, log, events, activated, commandVars, sessionVars, loopVars>>

\* lines 108-125, once textSpawn has resolved
callIsKeyUnlocked ==
    /\ call.fn = "isKeyUnlocked"
    /\ callResult = <<>>
    /\ \E outputs \in {StatusText(call.print)} :
         callResult' = <<isKeyUnlocked(outputs)>>
    /\ UNCHANGED <<call, programVars>>

\* lines 85-105
callParseGpgKey ==
    /\ call.fn = "parseGpgKey"
    /\ callResult = <<>>
    /\ \E rawText \in {ListingText(call.listing)} :
         callResult' = <<parseGpgKey(rawText)>>
    /\ UNCHANGED <<call, programVars>>

\* lines 141-158, once textSpawn has resolved
callGetKeyInfo ==
    /\ call.fn = "getKeyInfo"
    /\ callResult = <<>>
    /\ \E keyInfoRaw \in {ListingText(call.listing)} :
         callResult' = <<getKeyInfo(keyInfoRaw, call.keyId)>>
    /\ UNCHANGED <<call, programVars>>

InitGpg ==
    /\ NotActivated
    /\ call \in HelperCalls
    /\ callResult = <<>>

NextGpg == callIsKeyUnlocked \/ callParseGpgKey \/ callGetKeyInfo

SpecGpg == InitGpg /\ [][NextGpg]_vars

(***************************************************************************)
(* The manager with its loop: activate, the editor's events, syncLoop and  *)
(* dispose, the unlock command left out.  A sleep ends and a status query  *)
(* settles: syncLoop is weakly fair.                                       *)
(***************************************************************************)
InitLoop ==
    /\ Init
    /\ strictAlternation = TRUE

NextLoop == Activate \/ Manager \/ syncLoop \/ dispose

SpecLoop == InitLoop /\ [][NextLoop]_vars /\ WF_vars(syncLoop)

(***************************************************************************)
(* The manager with its loop and the unlock command up to the handshake:   *)
(* every caller of syncStatus short of the one that follows sign.          *)
(***************************************************************************)
UnlockToSign ==
    \/ \E input \in Passphrases : unlockNoActiveFolder(input)
    \/ \E input \in Passphrases : unlockNoKey(input)
    \/ \E input \in Passphrases : unlockCurrentKey(input)
    \/ unlockSynced
    \/ unlockQueryFailed
    \/ unlockSkipped
    \/ unlockTry
    \/ getSocketPathFailed
    \/ signStart
    \/ unlockCommandDone

NextSync == NextLoop \/ UnlockToSign

SpecSync == InitLoop /\ [][NextSync]_vars

(***************************************************************************)
(* Properties of the handshake.                                            *)
(***************************************************************************)
Last(s) == s[Len(s)]

IsPrefix(s, t) == Len(s) <= Len(t) /\ \A i \in 1..Len(s) : s[i] = t[i]

\* sign has returned or raised
Settled == signResult # "pending"

\* errors of the transport, not of the script
TransportErrors == {"ConnectionError", "IOError", "EndOfStream", "ParseError"}

Ok == Response("ok", "")

RawData == Response("rawData", "")

\* the replies of a peer whose key is unlocked already
UnlockedPeer == <<Ok, Ok, Ok, Ok, RawData, Ok, Ok>>

\* the replies of a peer whose key is locked
LockedPeer ==
    <<Ok, Ok, Ok, Ok, Response("information", "INQUIRE_MAXLEN"),
      Response("inquire", "PASSPHRASE"), RawData, Ok, Ok>>

\* the names of the requests written so far
SentNames == [i \in DOMAIN sent |-> sent[i].name]

\* C1: within one Session requests and responses strictly alternate: sign
\* never calls sendRequest twice with no receiveResponse in between, and no
\* sendRequest of the handshake raises ProtocolViolation.
C1_StrictAlternation ==
    /\ \A i \in 1..(Len(calls) - 1) :
         ~(calls[i].op = "sendRequest" /\ calls[i + 1].op = "sendRequest")
    /\ \A i \in DOMAIN calls : calls[i].outcome # "ProtocolViolation"

\* C2: however the handshake ends (initialize failing, an unexpected
\* response, an I/O error, an unhandled PKSIGN reply, success), dispose() has
\* been called on the Session by the time sign returns or raises.
C2_DisposedOnEveryExit == Settled => (disposeCalls >= 1 /\ agent = "Closed")

\* C3: a reply to PKSIGN that is neither RawData nor Information with keyword
\* INQUIRE_MAXLEN makes the handshake fail with the unhandled-flow error, and
\* no request follows PKSIGN.
C3_UnhandledFlow ==
    (/\ Len(received) >= 5
     /\ received[5] # RawData
     /\ received[5] # Response("information", "INQUIRE_MAXLEN"))
        => (signResult = "unhandled signing flow" /\ Len(sent) = 4)

\* C4: the passphrase is sent as RawData only when the response received
\* immediately before it is an Inquire with keyword PASSPHRASE.
C4_PassphraseOnlyOnInquirePassphrase ==
    (sent # <<>> /\ Last(sent).kind = "RawData")
        => response = Response("inquire", "PASSPHRASE")

\* C5: with a peer that replies Ok to the greeting, OPTION, SIGKEY and
\* SETHASH, Information INQUIRE_MAXLEN then Inquire PASSPHRASE to PKSIGN,
\* RawData then Ok after END and Ok to BYE, and a transport that does not
\* fail, the handshake sends one RawData request holding the passphrase,
\* then END, then BYE, and completes successfully.
C5_LockedKeyCompletes ==
    (Settled /\ IsPrefix(received, LockedPeer) /\ signResult \notin TransportErrors)
        => /\ signResult = "ok"
           /\ received = LockedPeer
           /\ SentNames = <<"OPTION", "SIGKEY", "SETHASH", "PKSIGN", "D", "END", "BYE">>
           /\ sent[5] = RequestRawData(passphrase[1])

\* C6: with a peer that replies Ok to the greeting, OPTION, SIGKEY and
\* SETHASH and RawData then Ok to PKSIGN, and a transport that does not fail,
\* the handshake sends BYE and completes successfully, and it never sends a
\* RawData request or END.
C6_UnlockedKeyCompletes ==
    IsPrefix(received, UnlockedPeer)
        => /\ \A i \in DOMAIN sent : sent[i].kind # "RawData" /\ sent[i].name # "END"
           /\ (Settled /\ signResult \notin TransportErrors)
                => /\ signResult = "ok"
                   /\ received = UnlockedPeer
                   /\ SentNames = <<"OPTION", "SIGKEY", "SETHASH", "PKSIGN", "BYE">>

C6_Witness == signResult = "ok" /\ received = UnlockedPeer

ScriptOrder == <<"OPTION", "SIGKEY", "SETHASH", "PKSIGN", "BYE">>

\* the commands of the script written so far: the requests other than the
\* reply to the inquiry (the RawData request and END)
CommandsSent == SelectSeq(SentNames, LAMBDA n : n \notin {"D", "END"})

\* C7: the commands go out in the order OPTION, SIGKEY, SETHASH, PKSIGN, BYE;
\* nothing is sent before the greeting was received as Ok; each of SIGKEY,
\* SETHASH and PKSIGN is sent only after the reply to the command before it
\* was received as Ok; after a reply that is not Ok no later command is sent.
C7_FixedOrder ==
    /\ IsPrefix(CommandsSent, ScriptOrder)
    /\ \A i \in DOMAIN sent :
         i <= 4 => /\ Len(received) >= i
                   /\ \A j \in 1..i : received[j].type = "ok"
                   /\ sent[i].name = ScriptOrder[i]
    /\ \A j \in DOMAIN received :
         (j <= 4 /\ received[j].type # "ok") => (Len(sent) = j - 1 /\ Settled)

C7_Witness == signResult = "ok" /\ CommandsSent = ScriptOrder

\* C8: no step is retried: each request is sent at most once, a call that
\* fails is the last call sign makes on the Session and its error is the
\* one sign raises, and after an unexpected response nothing more is sent.
C8_NoRetry ==
    /\ \A i, j \in DOMAIN sent : i # j => sent[i].name # sent[j].name
    /\ \A i \in DOMAIN calls :
         calls[i].outcome # "ok"
            => (i = Len(calls) /\ signResult = calls[i].outcome)
    /\ signResult \in {"UnexpectedResponse", "unhandled signing flow"}
         => (Last(calls).op = "receiveResponse" /\ agent = "Closed")

C8_Witness ==
    /\ signResult = "IOError"
    /\ Last(calls) = Call("sendRequest", "IOError")
    /\ Len(sent) = 5

\* C9: a RawData response is never the last response consumed before a
\* request is sent, and BYE is sent only after the signature RawData and an
\* Ok after it were received, on the unlocked branch (replies 5 and 6) and
\* on the locked branch (replies 7 and 8).
C9_RawDataDrained ==
    /\ (calls # <<>> /\ Last(calls).op = "sendRequest") => response.type # "rawData"
    /\ "BYE" \in Range(SentNames)
         => \E n \in {6, 8} :
              /\ Len(received) \in {n, n + 1}
              /\ received[n - 1].type = "rawData"
              /\ received[n].type = "ok"
              /\ (n = 8) = ("END" \in Range(SentNames))

C9_Witness == "BYE" \in Range(SentNames) /\ "END" \in Range(SentNames)

\* C10: the passphrase is never logged: while a command holds a passphrase,
\* no line given to the logger contains it, and it is in no request other
\* than one RawData request, the fifth request of the handshake.
C10_PassphraseNotLogged ==
    passphrase # <<>>
        => /\ \A i \in DOMAIN log : passphrase[1] \notin Range(log[i])
           /\ \A i \in DOMAIN sent :
                passphrase[1] \in Range(sent[i].payload)
                    => (sent[i].kind = "RawData" /\ i = 5)

\* unlockCurrentKey has run the handshake to its end and its second
\* syncStatus has logged the new event
C10_Witness ==
    /\ pc = "L51"
    /\ unlockResult = "ok"
    /\ passphrase # <<>>
    /\ log # <<>>
    /\ log[1][1] = "New event, key: "

(***************************************************************************)
(* Properties of the gpg helpers.                                          *)
(***************************************************************************)
\* C11: isKeyUnlocked fails with the parse error when the status line does
\* not have exactly 11 tokens (with its own diagnostic when the command
\* printed no line at all), and otherwise returns true exactly when the
\* token at index 6 is `1`, false for any other value of that token.
C11_StatusLineParsed ==
    (call.fn = "isKeyUnlocked" /\ callResult # <<>>)
        => IF Len(call.print.tokens) # 11
           THEN /\ callResult[1].threw
                /\ call.print.ending # <<>>
                     => callResult[1].message = <<"Fail to parse KEYINFO output">>
           ELSE callResult[1] = Returned(call.print.tokens[7] = <<"1">>)

C11_Witness ==
    /\ call.fn = "isKeyUnlocked"
    /\ callResult = <<Returned(TRUE)>>
    /\ Len(call.print.tokens) = 11

\* whether `sub` is a run of consecutive characters of s
Occurs(s, sub) == \E i \in 0..Len(s) : \E j \in i..Len(s) : SubSeq(s, i + 1, j) = sub

\* C12: getKeyInfo returns the first record, in the order of the listing,
\* whose fingerprint contains the key id as an exact, case-sensitive
\* substring, and fails when no record's fingerprint contains it.
C12_FirstMatch ==
    (call.fn = "getKeyInfo" /\ callResult # <<>>)
        => LET keys == call.listing.keys
               hit(i) == Occurs(keys[i].fingerprint, call.keyId)
           IN  IF \A i \in DOMAIN keys : ~hit(i)
               THEN callResult[1].threw
               ELSE /\ ~callResult[1].threw
                    /\ \E i \in DOMAIN keys :
                         /\ hit(i)
                         /\ \A j \in 1..(i - 1) : ~hit(j)
                         /\ callResult[1].info.fingerprint = keys[i].fingerprint
                         /\ callResult[1].info.keygrip = keys[i].keygrip

\* the key id is found in a record that is not the first of the listing
C12_Witness ==
    /\ call.fn = "getKeyInfo"
    /\ callResult # <<>>
    /\ ~callResult[1].threw
    /\ Len(call.listing.keys) >= 2
    /\ callResult[1].info.keygrip # call.listing.keys[1].keygrip
    /\ \E i \in DOMAIN call.listing.keys :
         /\ i > 1
         /\ Occurs(call.listing.keys[i].fingerprint, call.keyId)

\* C13: parsing a listing made of key blocks (a pub or sub line followed by
\* the block's fingerprint line and keygrip line) yields one record per
\* block, in the order of the listing, each with the fingerprint and the
\* keygrip of its own block.
C13_OneRecordPerBlock ==
    (call.fn = "parseGpgKey" /\ callResult # <<>>)
        => LET keys == call.listing.keys
               infos == callResult[1]
           IN  /\ Len(infos) = Len(keys)
               /\ \A i \in DOMAIN keys :
                    /\ infos[i].fingerprint = keys[i].fingerprint
                    /\ infos[i].keygrip = keys[i].keygrip
                    /\ infos[i].type = IF IsSub(call.listing, i) THEN <<"s", "u", "b">>
                                       ELSE <<"p", "u", "b">>

\* a primary key and a subkey, each with its own fingerprint and keygrip
C13_Witness ==
    /\ call.fn = "parseGpgKey"
    /\ callResult # <<>>
    /\ Len(callResult[1]) = 2
    /\ call.listing.subkeys
    /\ call.listing.uids
    /\ call.listing.keys[1] # call.listing.keys[2]

(***************************************************************************)
(* Properties of the manager.                                              *)
(***************************************************************************)
\* C14: once dispose was called syncLoop starts no new status query, and it
\* eventually returns, whether it was sleeping or waiting for a status query
\* and whether or not a folder is active.
C14_DisposeStopsLoop ==
    /\ [][disposed /\ loop # "L173" => loop' # "L173"]_vars
    /\ disposed ~> (loop = "returned")

\* the loop has returned although the active folder has a key to query
C14_Witness ==
    /\ disposed
    /\ loop = "returned"
    /\ syncStatusKey # <<>>

\* C15: unlockCurrentKey with no active folder throws 'No active folder', and
\* with an active folder that has no key 'No key for current folder', in the
\* step that calls it: no status query is started and no Session opened.
\* Otherwise it first awaits its syncStatus; a Session is opened, and any
\* request written, only after the query of line 279 made after that sync
\* has reported the key locked; when that query reports the key unlocked
\* the command returns with no Session and nothing transmitted.
C15_HandshakeOnlyWhenLocked ==
    /\ [][pc = "idle" /\ pc' # "idle" =>
            IF activateFolder = <<>>
            THEN /\ unlockResult' = "No active folder"
                 /\ pc' = "L51"
                 /\ UNCHANGED <<managerVars, keyInfo, isUnlocked, sessionVars>>
            ELSE IF activateFolder[1] \notin DOMAIN keyOfFolders
            THEN /\ unlockResult' = "No key for current folder"
                 /\ pc' = "L51"
                 /\ UNCHANGED <<managerVars, keyInfo, isUnlocked, sessionVars>>
            ELSE /\ pc' = "L278"
                 /\ keyInfo' # <<>>]_vars
    /\ [](pc \in {"idle", "L278", "L279"} => isUnlocked = <<>> /\ agent = "None")
    /\ [](agent # "None" \/ sent # <<>> => isUnlocked = <<FALSE>>)
    /\ [](isUnlocked = <<TRUE>> =>
            /\ pc = "L51"
            /\ unlockResult = "ok"
            /\ agent = "None"
            /\ sent = <<>>)

\* the command has returned because the key was unlocked already
C15_Witness ==
    /\ isUnlocked = <<TRUE>>
    /\ unlockResult = "ok"
    /\ lastEvent # <<>>
    /\ ~lastEvent[1].isLocked

\* notifyUpdate ran in the latest step
Notified == \E i \in DOMAIN log : log[i] = <<"Trigger status update functions">>

\* C16: whenever the update functions are invoked, a folder is active, it
\* has a key in the folder-to-key map, and the event's keyId is that key's
\* fingerprint: the result of a query started for a folder that was active
\* before is not published.
C16_EventOfActiveFolder ==
    Notified =>
        /\ activateFolder # <<>>
        /\ activateFolder[1] \in DOMAIN keyOfFolders
        /\ lastEvent[1].keyId = keyOfFolders[activateFolder[1]].fingerprint

\* no updateFolder call is in flight
LookupsDone == \A f \in Folders : lookups[f] = 0

\* C17: once every key lookup has completed, every folder with an entry in
\* the folder-to-key map is in the list of the latest updateFolders call: a
\* lookup started by an earlier call does not put back a folder the later
\* call left out.
C17_MapWithinLatestFolders ==
    LookupsDone => DOMAIN keyOfFolders \subseteq folderList

\* C18: a step invokes the update functions only with an event that differs,
\* in keyId or isLocked, from the stored last event, and stores it; a step
\* that invokes none leaves the stored event alone.  So two consecutive
\* notifications differ and #lastEvent is the event notified last.
C18_NotifiedOnlyOnChange ==
    [][IF Notified'
       THEN /\ lastEvent' # <<>>
            /\ log'[1] = <<"New event, key: ", lastEvent'[1].keyId,
                           ", is locked: ", BoolText(lastEvent'[1].isLocked)>>
            /\ lastEvent = <<>> \/ ~equal(lastEvent'[1], lastEvent[1])
       ELSE lastEvent' = lastEvent]_vars

\* a notification by the command or by changeActivateFolder while the
\* syncStatus of the loop is waiting for its own query
C18_Witness ==
    /\ Notified
    /\ loop = "L173"
    /\ pc = "L279"

\* the manager is not disposed and `folder` is active with `key` in the map
Stable(folder, key) ==
    /\ ~disposed
    /\ activateFolder = <<folder>>
    /\ folder \in DOMAIN keyOfFolders
    /\ keyOfFolders[folder] = key

\* the event notified last is one of `key`
LastEventOf(key) ==
    /\ lastEvent # <<>>
    /\ lastEvent[1].keyId = key.fingerprint

\* a step in which a status query of syncStatus threw
QueryThrew ==
    /\ log' # <<>>
    /\ log'[1][1] = "Fail to check key status: "

\* C19: if from some point on the status queries succeed, then whenever the
\* manager is not disposed and the active folder has a key in the map,
\* either that stops being so or an event of that key gets notified, also
\* when no changeActivateFolder call queried the key (the one of activate
\* ran before the lookup had completed).
C19_EventuallyNotified ==
    \A folder \in Folders, key \in Keys :
        <>[][~QueryThrew]_vars =>
            (Stable(folder, key) ~> (~Stable(folder, key) \/ LastEventOf(key)))

\* the loop has notified the key of the folder activate made active: no
\* editor event was delivered
C19_Witness ==
    /\ events = 0
    /\ \E folder \in Folders, key \in Keys :
         /\ Stable(folder, key)
         /\ LastEventOf(key)
====
